---- MODULE Spec2Model ----
(***************************************************************************)
(* Population of an XCS learning classifier system (piecewise) and the     *)
(* capacity-enforcing deletion strategy that runs on it.                   *)
(*                                                                         *)
(* A population value is a record                                          *)
(*   [members, numerosity, num_micros, ledger, raised]                     *)
(* members     the list Population._members (classifier objects, in order) *)
(* numerosity  the numerosity attribute of every classifier object, member *)
(*             or not (the attribute lives on the object)                  *)
(* num_micros  the cached Population._num_micros                           *)
(* ledger      Population._operation_recorder, one counter per label       *)
(* raised      the exception that left the call, "none" when it returned   *)
(* last is the most recent call on the population, probe the most recent   *)
(* call of _calc_deletion_vote on its own, call the most recent call of    *)
(* the constructor or of the selection scan on its own.                    *)
(* Every method of the source is an operator from a population value to    *)
(* the population value it leaves behind.                                  *)
(***************************************************************************)
EXTENDS Integers, Sequences, FiniteSets, TLC

VARIABLES members, numerosity, num_micros, ledger, last, probe, call

vars == <<members, numerosity, num_micros, ledger, last, probe, call>>

popvars == <<members, numerosity, num_micros, ledger>>

-----------------------------------------------------------------------------
(* Bounds of the exploration *)

\* capacity handed to Population(max_micros)
max_micros == 2
\* calls that would take num_micros above MaxMicros are not made
MaxMicros == 4
\* calls that would take a numerosity above MaxNumerosity are not made
MaxNumerosity == 3
\* calls that would take the sum of the ledger's counters above MaxLedger are
\* not made
MaxLedger == 2
\* rand() returns k / DrawDen for some k in 0 .. DrawDen - 1
DrawDen == 3

-----------------------------------------------------------------------------
(* Classifier objects *)

\* Python's None: no operation label, no classifier selected
None == "None"

\* the classifier objects of a run; A and B are distinct objects with equal rules
Classifiers == {"A", "B", "C"}

rule == [c \in Classifiers |-> IF c = "C" THEN "r2" ELSE "r1"]

\* fitness, in units of fitness_I
fitness == [c \in Classifiers |-> IF c = "A" THEN 1 ELSE 20]

experience == [c \in Classifiers |-> IF c = "C" THEN 5 ELSE 25]

action_set_size == [c \in Classifiers |-> IF c = "B" THEN 2 ELSE 1]

\* labels the callers of the population use, and the two fixed ones
CallerLabels == {"discovery"}

Labels == CallerLabels \cup {"absorption", "deletion"}

LabelArgs == CallerLabels \cup {None}

\* numbers of copies handed to duplicate
CopyCounts == {1, 2}

-----------------------------------------------------------------------------
(* Helpers over lists *)

Range(s) == {s[i] : i \in 1 .. Len(s)}

Abs(x) == IF x < 0 THEN -x ELSE x

RECURSIVE SumNumerosity(_, _)
SumNumerosity(ms, num) ==
    IF ms = <<>> THEN 0 ELSE num[Head(ms)] + SumNumerosity(Tail(ms), num)

\* list.remove(x): drops the first element equal to x
RECURSIVE ListRemove(_, _)
ListRemove(s, x) ==
    IF s = <<>> THEN <<>>
    ELSE IF Head(s) = x THEN Tail(s)
    ELSE <<Head(s)>> \o ListRemove(Tail(s), x)

Raise(p, e) == [p EXCEPT !.raised = e]

-----------------------------------------------------------------------------
(* Population *)

\* int(x) of a number x = <<numerator, denominator>>: truncation towards zero
PythonInt(x) ==
    IF x[1] >= 0 THEN x[1] \div x[2] ELSE -((-x[1]) \div x[2])

\* [raised, max_micros]: the exception raised and the value returned
_validate_and_return_max_micros(x) ==
    LET m == PythonInt(x)
    IN  IF ~(m > 0) THEN [raised |-> "InvalidSizeError", max_micros |-> m]
        ELSE [raised |-> "none", max_micros |-> m]

\* Population.__init__ with a valid max_micros
EmptyPopulation ==
    [members |-> <<>>,
     numerosity |-> [c \in Classifiers |-> 1],
     num_micros |-> 0,
     ledger |-> [l \in Labels |-> 0],
     raised |-> "none"]

\* classifier in population
contains(p, c) == c \in Range(p.members)

_inc_num_micros(p, added_numerosity) ==
    [p EXCEPT !.num_micros = @ + added_numerosity]

_dec_num_micros(p, removed_numerosity) ==
    LET q == [p EXCEPT !.num_micros = @ - removed_numerosity]
    IN  IF q.num_micros >= 0 THEN q ELSE Raise(q, "AssertionError")

\* as record_operation, recording the signed change of num_micros
record_operation_signed(before, after, operation_label) ==
    LET num_micros_altered == after.num_micros - before.num_micros
    IN  IF after.raised # "none" THEN after
        ELSE IF operation_label # None
             THEN [after EXCEPT !.ledger[operation_label] = @ + num_micros_altered]
             ELSE after

\* the decorator: before is the population on entry, after what the atomic
\* method left; an exception of the method passes through unrecorded
record_operation(before, after, operation_label) ==
    LET num_micros_altered == Abs(after.num_micros - before.num_micros)
    IN  IF after.raised # "none" THEN after
        ELSE IF operation_label # None
             THEN [after EXCEPT !.ledger[operation_label] = @ + num_micros_altered]
             ELSE after

\* as _atomic_add_new, without counting the new micro-classifiers
_atomic_add_new_uncounted(p, new_classifier, operation_label) ==
    record_operation(p,
        [p EXCEPT !.members = Append(@, new_classifier)],
        operation_label)

_atomic_add_new(p, new_classifier, operation_label) ==
    record_operation(p,
        _inc_num_micros([p EXCEPT !.members = Append(@, new_classifier)],
                        p.numerosity[new_classifier]),
        operation_label)

_atomic_copy_existing(p, existing_classifier, num_copies, operation_label) ==
    IF ~(num_copies >= 1) THEN Raise(p, "AssertionError")
    ELSE record_operation(p,
            _inc_num_micros(
                [p EXCEPT !.numerosity[existing_classifier] = @ + num_copies],
                num_copies),
            operation_label)

_atomic_remove_whole(p, classifier, operation_label) ==
    IF ~contains(p, classifier) THEN Raise(p, "ValueError")
    ELSE record_operation(p,
            _dec_num_micros(
                [p EXCEPT !.members = ListRemove(@, classifier)],
                p.numerosity[classifier]),
            operation_label)

\* as _atomic_remove_single_copy, with the test numerosity > 0
_atomic_remove_single_copy_no_boundary(p, existing_classifier, operation_label) ==
    IF p.numerosity[existing_classifier] > 0
    THEN record_operation(p,
            _dec_num_micros(
                [p EXCEPT !.numerosity[existing_classifier] = @ - 1], 1),
            operation_label)
    ELSE record_operation(p,
            _dec_num_micros(
                [p EXCEPT !.members = ListRemove(@, existing_classifier)], 1),
            operation_label)

_atomic_remove_single_copy(p, existing_classifier, operation_label) ==
    IF existing_classifier \notin Classifiers THEN Raise(p, "AttributeError")
    ELSE IF p.numerosity[existing_classifier] > 1
    THEN record_operation(p,
            _dec_num_micros(
                [p EXCEPT !.numerosity[existing_classifier] = @ - 1], 1),
            operation_label)
    ELSE IF ~contains(p, existing_classifier) THEN Raise(p, "ValueError")
    ELSE record_operation(p,
            _dec_num_micros(
                [p EXCEPT !.members = ListRemove(@, existing_classifier)], 1),
            operation_label)

\* the decorator's test on the first argument of the decorated method
verify_membership(p, classifier) == contains(p, classifier)

add(p, classifier, operation_label) ==
    _atomic_add_new(p, classifier, operation_label)

\* as _absorb, absorbing a single copy
_absorb_one_copy(p, absorbee, absorber) ==
    _atomic_copy_existing(p, absorber, 1, "absorption")

_absorb(p, absorbee, absorber) ==
    _atomic_copy_existing(p, absorber, p.numerosity[absorbee], "absorption")

\* as FirstWithRule, giving up after the first member
FirstWithRule_head_only(ms, r) ==
    IF ms = <<>> THEN None
    ELSE IF rule[Head(ms)] = r THEN Head(ms)
    ELSE None

\* the first member whose rule equals the classifier's, None when there is none
RECURSIVE FirstWithRule(_, _)
FirstWithRule(ms, r) ==
    IF ms = <<>> THEN None
    ELSE IF rule[Head(ms)] = r THEN Head(ms)
    ELSE FirstWithRule(Tail(ms), r)

\* was_absorbed of insert
was_absorbed(p, classifier) == FirstWithRule(p.members, rule[classifier]) # None

_try_to_absorb(p, classifier) ==
    IF was_absorbed(p, classifier)
    THEN _absorb(p, classifier, FirstWithRule(p.members, rule[classifier]))
    ELSE p

\* as insert, recording an absorption under the caller's label
insert_absorbing_under_label(p, classifier, operation_label) ==
    IF was_absorbed(p, classifier)
    THEN _atomic_copy_existing(p, FirstWithRule(p.members, rule[classifier]),
                               p.numerosity[classifier], operation_label)
    ELSE _atomic_add_new(p, classifier, operation_label)

insert(p, classifier, operation_label) ==
    IF was_absorbed(p, classifier)
    THEN _try_to_absorb(p, classifier)
    ELSE _atomic_add_new(p, classifier, operation_label)

duplicate(p, classifier, num_copies, operation_label) ==
    IF ~verify_membership(p, classifier) THEN Raise(p, "MemberNotFoundError")
    ELSE IF ~(num_copies >= 1) THEN Raise(p, "AssertionError")
    ELSE _atomic_copy_existing(p, classifier, num_copies, operation_label)

\* as replace, reading replacee.numerosity as one copy
replace_one_copy(p, replacee, replacer, operation_label) ==
    IF ~verify_membership(p, replacee) THEN Raise(p, "MemberNotFoundError")
    ELSE LET q == _atomic_remove_whole(p, replacee, None)
         IN  IF q.raised # "none" THEN q
             ELSE _atomic_copy_existing(q, replacer, 1, operation_label)

\* as replace, recording the removal of the replacee under the label too
replace_recording_removal(p, replacee, replacer, operation_label) ==
    IF ~verify_membership(p, replacee) THEN Raise(p, "MemberNotFoundError")
    ELSE LET num_replacer_copies == p.numerosity[replacee]
             q == _atomic_remove_whole(p, replacee, operation_label)
         IN  IF q.raised # "none" THEN q
             ELSE _atomic_copy_existing(q, replacer, num_replacer_copies,
                                        operation_label)

replace(p, replacee, replacer, operation_label) ==
    IF ~verify_membership(p, replacee) THEN Raise(p, "MemberNotFoundError")
    ELSE LET num_replacer_copies == p.numerosity[replacee]
             q == _atomic_remove_whole(p, replacee, None)
         IN  IF q.raised # "none" THEN q
             ELSE _atomic_copy_existing(q, replacer, num_replacer_copies,
                                        operation_label)

\* as delete, without the membership decorator
delete_unverified(p, classifier) ==
    _atomic_remove_single_copy(p, classifier, "deletion")

delete(p, classifier) ==
    IF ~verify_membership(p, classifier) THEN Raise(p, "MemberNotFoundError")
    ELSE _atomic_remove_single_copy(p, classifier, "deletion")

remove(p, classifier, operation_label) ==
    IF ~verify_membership(p, classifier) THEN Raise(p, "MemberNotFoundError")
    ELSE _atomic_remove_whole(p, classifier, operation_label)

-----------------------------------------------------------------------------
(* Exact arithmetic on fractions <<numerator, denominator>>, denominator > 0 *)

RECURSIVE GCD(_, _)
GCD(a, b) == IF b = 0 THEN a ELSE GCD(b, a % b)

Norm(x) ==
    LET g == GCD(Abs(x[1]), x[2])
    IN  IF g = 0 THEN x ELSE <<x[1] \div g, x[2] \div g>>

RatAdd(x, y) == Norm(<<x[1] * y[2] + y[1] * x[2], x[2] * y[2]>>)

RatMul(x, y) == Norm(<<x[1] * y[1], x[2] * y[2]>>)

\* x / y for y > 0
RatDiv(x, y) == Norm(<<x[1] * y[2], x[2] * y[1]>>)

RatLess(x, y) == x[1] * y[2] < y[1] * x[2]

RatEq(x, y) == x[1] * y[2] = y[1] * x[2]

-----------------------------------------------------------------------------
(* Deletion strategy *)

\* get_hyperparam("theta_del")
theta_del == 20

\* get_hyperparam("delta"), 0.1
delta == <<1, 10>>

\* the attributes of a classifier the vote reads
ClassifierOf(p, c) ==
    [action_set_size |-> action_set_size[c],
     numerosity |-> p.numerosity[c],
     fitness |-> fitness[c],
     experience |-> experience[c]]

\* calc_summary_stat(population, "mean", "fitness"), for a population with members
RECURSIVE SumFitness(_)
SumFitness(ms) == IF ms = <<>> THEN 0 ELSE fitness[Head(ms)] + SumFitness(Tail(ms))

calc_summary_stat_mean_fitness(p) == Norm(<<SumFitness(p.members), Len(p.members)>>)

\* the uninflated vote
base_vote(classifier) == <<classifier.action_set_size * classifier.numerosity, 1>>

has_sufficient_experience(classifier) == classifier.experience > theta_del

has_low_fitness(classifier, mean_fitness_in_pop) ==
    RatLess(<<classifier.fitness, classifier.numerosity>>,
            RatMul(delta, mean_fitness_in_pop))

\* as _calc_deletion_vote, with experience >= theta_del
_calc_deletion_vote_inclusive(classifier, mean_fitness_in_pop) ==
    LET vote == base_vote(classifier)
        fitness_numerosity_ratio == <<classifier.fitness, classifier.numerosity>>
    IN  IF classifier.experience >= theta_del
           /\ has_low_fitness(classifier, mean_fitness_in_pop)
        THEN IF fitness_numerosity_ratio[1] = 0
             THEN [raised |-> "ZeroDivisionError", vote |-> vote]
             ELSE [raised |-> "none",
                   vote |-> RatMul(vote, RatDiv(mean_fitness_in_pop,
                                                fitness_numerosity_ratio))]
        ELSE [raised |-> "none", vote |-> vote]

\* [raised, vote]: the vote, or the ZeroDivisionError of mean / ratio
_calc_deletion_vote(classifier, mean_fitness_in_pop) ==
    LET vote == base_vote(classifier)
        fitness_numerosity_ratio == <<classifier.fitness, classifier.numerosity>>
    IN  IF has_sufficient_experience(classifier)
           /\ has_low_fitness(classifier, mean_fitness_in_pop)
        THEN IF fitness_numerosity_ratio[1] = 0
             THEN [raised |-> "ZeroDivisionError", vote |-> vote]
             ELSE [raised |-> "none",
                   vote |-> RatMul(vote, RatDiv(mean_fitness_in_pop,
                                                fitness_numerosity_ratio))]
        ELSE [raised |-> "none", vote |-> vote]

\* votes of the members, in iteration order
Votes(p) ==
    [i \in 1 .. Len(p.members) |->
        _calc_deletion_vote(ClassifierOf(p, p.members[i]),
                            calc_summary_stat_mean_fitness(p))]

RECURSIVE SumVotes(_, _)
SumVotes(votes, i) ==
    IF i = 0 THEN <<0, 1>> ELSE RatAdd(SumVotes(votes, i - 1), votes[i].vote)

\* as ScanVotes, returning at vote_sum >= choice_point
RECURSIVE ScanVotes_inclusive(_, _, _, _, _)
ScanVotes_inclusive(ms, votes, i, vote_sum, choice_point) ==
    IF i > Len(ms) THEN None
    ELSE LET running == RatAdd(vote_sum, votes[i].vote)
         IN  IF ~RatLess(running, choice_point) THEN ms[i]
             ELSE ScanVotes_inclusive(ms, votes, i + 1, running, choice_point)

\* the scan of the second loop: the member at which the running sum first
\* exceeds choice_point, None when the loop ends without returning
RECURSIVE ScanVotes(_, _, _, _, _)
ScanVotes(ms, votes, i, vote_sum, choice_point) ==
    IF i > Len(ms) THEN None
    ELSE LET running == RatAdd(vote_sum, votes[i].vote)
         IN  IF RatLess(choice_point, running) THEN ms[i]
             ELSE ScanVotes(ms, votes, i + 1, running, choice_point)

\* [raised, classifier] for rand() = draw / DrawDen.  On an empty population
\* the mean is that of no values, there are no votes and the scan returns None.
_select_for_deletion(p, draw) ==
    LET votes == Votes(p)
        vote_sum == SumVotes(votes, Len(p.members))
        choice_point == RatMul(<<draw, DrawDen>>, vote_sum)
    IN  IF \E i \in 1 .. Len(p.members) : votes[i].raised # "none"
        THEN [raised |-> "ZeroDivisionError", classifier |-> None]
        ELSE [raised |-> "none",
              classifier |-> ScanVotes(p.members, votes, 1, <<0, 1>>, choice_point)]

\* as DeletionRounds, selecting once and deleting that classifier every round
RECURSIVE DeletionRounds_one_selection(_, _, _, _, _)
DeletionRounds_one_selection(p, draws, i, num_deletions, selected) ==
    IF i > num_deletions THEN [pop |-> p, rounds |-> i - 1, selected |-> selected]
    ELSE LET s == IF selected = <<>> THEN _select_for_deletion(p, draws[i])
                  ELSE [raised |-> "none", classifier |-> selected[1]]
             q == IF s.raised # "none" THEN Raise(p, s.raised)
                  ELSE delete(p, s.classifier)
         IN  IF q.raised # "none"
             THEN [pop |-> q, rounds |-> i,
                   selected |-> Append(selected, s.classifier)]
             ELSE DeletionRounds_one_selection(q, draws, i + 1, num_deletions,
                                               Append(selected, s.classifier))

\* the loop of _perform_deletions from round i on: [pop, rounds, selected]
RECURSIVE DeletionRounds(_, _, _, _, _)
DeletionRounds(p, draws, i, num_deletions, selected) ==
    IF i > num_deletions THEN [pop |-> p, rounds |-> i - 1, selected |-> selected]
    ELSE LET s == _select_for_deletion(p, draws[i])
             q == IF s.raised # "none" THEN Raise(p, s.raised)
                  ELSE delete(p, s.classifier)
         IN  IF q.raised # "none"
             THEN [pop |-> q, rounds |-> i,
                   selected |-> Append(selected, s.classifier)]
             ELSE DeletionRounds(q, draws, i + 1, num_deletions,
                                 Append(selected, s.classifier))

_perform_deletions(p, draws) ==
    LET num_deletions == p.num_micros - max_micros
    IN  IF ~(num_deletions >= 1)
        THEN [pop |-> Raise(p, "AssertionError"), rounds |-> 0, selected |-> <<>>]
        ELSE DeletionRounds(p, draws, 1, num_deletions, <<>>)

\* as deletion_is_required, with >=
deletion_is_required_at_capacity(p) == p.num_micros >= max_micros

deletion_is_required(p) == p.num_micros > max_micros

\* DeletionStrategyABC.__call__: [pop, rounds, selected]
DeletionStrategy(p, draws) ==
    LET r == IF deletion_is_required(p) THEN _perform_deletions(p, draws)
             ELSE [pop |-> p, rounds |-> 0, selected |-> <<>>]
    IN  IF r.pop.raised = "none" /\ ~(r.pop.num_micros <= max_micros)
        THEN [r EXCEPT !.pop = Raise(@, "AssertionError")]
        ELSE r

-----------------------------------------------------------------------------
(* The run: one call of the learning algorithm per step *)

\* the population the next call finds
Current ==
    [members |-> members, numerosity |-> numerosity, num_micros |-> num_micros,
     ledger |-> ledger, raised |-> "none"]

RECURSIVE SumLedger(_, _)
SumLedger(led, ls) ==
    IF ls = {} THEN 0
    ELSE LET l == CHOOSE x \in ls : TRUE IN led[l] + SumLedger(led, ls \ {l})

Bounded(q) ==
    /\ q.num_micros <= MaxMicros
    /\ \A c \in Classifiers : q.numerosity[c] <= MaxNumerosity
    /\ SumLedger(q.ledger, Labels) <= MaxLedger

\* the call op(...) took the branch named by case and left the population as q
Returns(q, op, case, rounds) ==
    /\ Bounded(q)
    /\ members' = q.members
    /\ numerosity' = q.numerosity
    /\ num_micros' = q.num_micros
    /\ ledger' = q.ledger
    /\ last' = [op |-> op, case |-> case, raised |-> q.raised, rounds |-> rounds]
    /\ UNCHANGED <<probe, call>>

Members == Range(members)

Absent == Classifiers \ Range(members)

\* one rand() per round of the deletion strategy
Excess == IF num_micros > max_micros THEN num_micros - max_micros ELSE 0

DrawSeqs == [1 .. Excess -> 0 .. DrawDen - 1]

NoProbe ==
    [calls |-> 0,
     classifier |-> [action_set_size |-> 1, numerosity |-> 1, fitness |-> 1,
                     experience |-> 0],
     mean |-> <<1, 1>>,
     result |-> [raised |-> "none", vote |-> <<1, 1>>]]

NoCall == [fn |-> "none", arg |-> <<>>, result |-> <<>>]

Init ==
    /\ members = EmptyPopulation.members
    /\ numerosity = EmptyPopulation.numerosity
    /\ num_micros = EmptyPopulation.num_micros
    /\ ledger = EmptyPopulation.ledger
    /\ last = [op |-> "init", case |-> "none", raised |-> "none", rounds |-> 0]
    /\ probe = NoProbe
    /\ call = NoCall

add_call(c, l) == Returns(add(Current, c, l), "add", "new", 0)

insert_call(c, l) ==
    Returns(insert(Current, c, l), "insert",
            IF was_absorbed(Current, c) THEN "absorbed" ELSE "new", 0)

duplicate_call(c, n, l) ==
    Returns(duplicate(Current, c, n, l), "duplicate",
            IF c \in Members THEN "member" ELSE "absent", 0)

replace_call(a, b, l) ==
    Returns(replace(Current, a, b, l), "replace",
            IF a \notin Members THEN "absent"
            ELSE IF b \notin Members THEN "absent_replacer"
            ELSE IF a = b THEN "same" ELSE "distinct", 0)

delete_call(c) ==
    Returns(delete(Current, c), "delete",
            IF c \notin Members THEN "absent"
            ELSE IF numerosity[c] > 1 THEN "decrement" ELSE "last_copy", 0)

remove_call(c, l) ==
    Returns(remove(Current, c, l), "remove",
            IF c \in Members THEN "member" ELSE "absent", 0)

deletion_call(draws) ==
    LET r == DeletionStrategy(Current, draws)
    IN  Returns(r.pop, "deletion",
                IF deletion_is_required(Current) THEN "required" ELSE "not_required",
                r.rounds)

\* add is handed a newly discovered classifier, one that is not yet a member
Add == \E c \in Absent, l \in LabelArgs : add_call(c, l)

Insert == \E c \in Classifiers, l \in LabelArgs : insert_call(c, l)

Duplicate == \E c \in Members, n \in CopyCounts, l \in LabelArgs : duplicate_call(c, n, l)

Replace == \E a \in Members, b \in Members, l \in LabelArgs : replace_call(a, b, l)

Delete == \E c \in Members : delete_call(c)

Remove == \E c \in Members, l \in LabelArgs : remove_call(c, l)

EnforceCapacity == \E draws \in DrawSeqs : deletion_call(draws)

\* the calls of the learning algorithm on the population
Calls ==
    \/ Add
    \/ Insert
    \/ Duplicate
    \/ Replace
    \/ Delete
    \/ Remove

Next ==
    \/ Calls
    \/ EnforceCapacity

Spec == Init /\ [][Next]_vars

\* calls whose classifier is not in the population
DuplicateAbsent ==
    \E c \in Absent, n \in CopyCounts, l \in LabelArgs : duplicate_call(c, n, l)

ReplaceAbsent ==
    \E a \in Absent, b \in Classifiers, l \in LabelArgs : replace_call(a, b, l)

ReplaceByAbsent ==
    \E a \in Members, b \in Absent, l \in LabelArgs : replace_call(a, b, l)

DeleteAbsent == \E c \in Absent : delete_call(c)

RemoveAbsent == \E c \in Absent, l \in LabelArgs : remove_call(c, l)

NextAbsent ==
    \/ Calls
    \/ DuplicateAbsent
    \/ ReplaceAbsent
    \/ ReplaceByAbsent
    \/ DeleteAbsent
    \/ RemoveAbsent

SpecAbsent == Init /\ [][NextAbsent]_vars

\* a population that is only ever filled through insert
NextInsertOnly ==
    \/ Insert
    \/ Duplicate
    \/ Replace
    \/ Delete
    \/ Remove

SpecInsertOnly == Init /\ [][NextInsertOnly]_vars

-----------------------------------------------------------------------------
(* The deletion vote as a function of its inputs *)

ClassifierInputs ==
    [action_set_size : {1, 2},
     numerosity : {1, 2, 3},
     fitness : {1, 2, 10, 20},
     experience : {theta_del - 1, theta_del, theta_del + 1}]

MeanInputs == {<<1, 1>>, <<7, 2>>, <<10, 1>>, <<41, 3>>, <<20, 1>>}

CalcVote ==
    \E classifier \in ClassifierInputs, mean \in MeanInputs :
        /\ probe' = [calls |-> 1, classifier |-> classifier, mean |-> mean,
                     result |-> _calc_deletion_vote(classifier, mean)]
        /\ UNCHANGED <<members, numerosity, num_micros, ledger, last, call>>

SpecVote == Init /\ [][CalcVote]_vars

-----------------------------------------------------------------------------
(* The selection as a function of the votes *)

\* the votes of the members, in iteration order
VoteInputs == {-1, 0, 1, 2}

MemberLists == {<<"A">>, <<"A", "B">>, <<"A", "B", "C">>}

\* _select_for_deletion from the votes on: the sum, the choice point, the scan
select_from_votes(ms, votes, draw) ==
    LET vote_sum == SumVotes(votes, Len(ms))
        choice_point == RatMul(<<draw, DrawDen>>, vote_sum)
    IN  ScanVotes(ms, votes, 1, <<0, 1>>, choice_point)

Select ==
    \E ms \in MemberLists, draw \in 0 .. DrawDen - 1 :
        \E vs \in [1 .. Len(ms) -> VoteInputs] :
            LET votes == [i \in 1 .. Len(ms) |->
                            [raised |-> "none", vote |-> <<vs[i], 1>>]]
            IN  /\ call' = [fn |-> "_select_for_deletion",
                            arg |-> [members |-> ms, votes |-> vs, draw |-> draw],
                            result |-> select_from_votes(ms, votes, draw)]
                /\ UNCHANGED <<members, numerosity, num_micros, ledger, last,
                               probe>>

SpecSelect == Init /\ [][Select]_vars

-----------------------------------------------------------------------------
(* Construction of the population from any number *)

\* the halves from -1 to max_micros + 1
SizeInputs == {<<n, 2>> : n \in -2 .. 2 * max_micros + 2}

\* Population.__init__: [raised, max_micros, population]
__init__(x) ==
    LET v == _validate_and_return_max_micros(x)
    IN  [raised |-> v.raised, max_micros |-> v.max_micros,
         population |-> EmptyPopulation]

Construct ==
    \E x \in SizeInputs :
        /\ call = NoCall
        /\ call' = [fn |-> "__init__", arg |-> x, result |-> __init__(x)]
        /\ members' = call'.result.population.members
        /\ numerosity' = call'.result.population.numerosity
        /\ num_micros' = call'.result.population.num_micros
        /\ ledger' = call'.result.population.ledger
        /\ last' = [op |-> "__init__", case |-> "none",
                    raised |-> call'.result.raised, rounds |-> 0]
        /\ UNCHANGED probe

\* the population was constructed with the capacity of the exploration
Constructed ==
    /\ call.fn = "__init__"
    /\ call.result.raised = "none"
    /\ call.result.max_micros = max_micros

NextConstruct ==
    \/ Construct
    \/ Constructed /\ Calls
    \/ Constructed /\ EnforceCapacity

SpecConstruct == Init /\ [][NextConstruct]_vars

-----------------------------------------------------------------------------
(* Properties *)

\* C1: between calls, num_micros equals the sum of numerosity over the members.
C1_NumMicrosIsSum == num_micros = SumNumerosity(members, numerosity)

\* C2: invoked with num_micros > max_micros, the deletion strategy returns
\* without raising and leaves num_micros = max_micros.
C2_CapacityPostcondition ==
    num_micros > max_micros =>
        \A draws \in DrawSeqs :
            LET r == DeletionStrategy(Current, draws)
            IN  r.pop.raised = "none" /\ r.pop.num_micros = max_micros

\* C3: replace(a, b) on two members leaves num_micros unchanged, leaves a
\* absent and raises b's numerosity by the numerosity a had.
C3_ReplacePreservesMicros ==
    \A a \in Members, b \in Members, l \in LabelArgs :
        LET q == replace(Current, a, b, l)
        IN  /\ q.raised = "none"
            /\ q.num_micros = num_micros
            /\ a \notin Range(q.members)
            /\ q.numerosity[b] = numerosity[b] + numerosity[a]

C3_Witness ==
    /\ last.op = "replace"
    /\ last.case = "distinct"
    /\ last.raised = "none"
    /\ \E c \in Classifiers : numerosity[c] >= 3

\* C4: insert(c) with a member of equal rule leaves the member list as it is
\* and adds c.numerosity to num_micros; insert(c) of a novel rule appends one
\* macro-classifier and adds c.numerosity to num_micros.
C4_Absorption ==
    \A c \in Classifiers, l \in LabelArgs :
        LET q == insert(Current, c, l)
        IN  /\ q.raised = "none"
            /\ q.num_micros = num_micros + numerosity[c]
            /\ IF \E m \in Members : rule[m] = rule[c]
               THEN q.members = members
               ELSE Len(q.members) = Len(members) + 1

C4_Witness ==
    /\ last.op = "insert"
    /\ last.case = "absorbed"
    /\ last.raised = "none"
    /\ \E c \in Absent : numerosity[c] = 2 /\ num_micros >= 3

\* C5: delete(c) removes a member of numerosity 1 (one macro-classifier less),
\* decrements a member of numerosity > 1 by one (same macro-classifiers), and
\* lowers num_micros by exactly 1 in both cases.
C5_DeleteBoundary ==
    \A c \in Members :
        LET q == delete(Current, c)
        IN  /\ q.raised = "none"
            /\ q.num_micros = num_micros - 1
            /\ IF numerosity[c] = 1
               THEN /\ c \notin Range(q.members)
                    /\ Len(q.members) = Len(members) - 1
               ELSE /\ q.numerosity[c] = numerosity[c] - 1
                    /\ q.members = members

C5_Witness ==
    /\ last.op = "delete"
    /\ last.case = "last_copy"
    /\ last.raised = "none"
    /\ Len(members) >= 1

\* C6: duplicate, replace, delete and remove called with a first argument that
\* is not a member raise MemberNotFoundError and leave the member list, every
\* numerosity, num_micros and the ledger as they were.
C6_AbsentFirstArgumentRaises ==
    LET unchanged == Raise(Current, "MemberNotFoundError")
    IN  \A c \in Absent, l \in LabelArgs :
            /\ \A n \in CopyCounts : duplicate(Current, c, n, l) = unchanged
            /\ \A b \in Classifiers : replace(Current, c, b, l) = unchanged
            /\ delete(Current, c) = unchanged
            /\ remove(Current, c, l) = unchanged

C6_Witness ==
    /\ last.op = "delete"
    /\ last.case = "absent"
    /\ last.raised = "MemberNotFoundError"
    /\ \E c \in Absent : numerosity[c] > 1

\* C7: replace(replacee, replacer) raises MemberNotFoundError when either of
\* the two is not a member, and then changes nothing.
C7_ReplaceVerifiesBoth ==
    \A a \in Classifiers, b \in Classifiers, l \in LabelArgs :
        (a \notin Members \/ b \notin Members)
            => replace(Current, a, b, l) = Raise(Current, "MemberNotFoundError")

C10_NoOpWithinCapacity ==
    num_micros <= max_micros =>
        \A draws \in DrawSeqs :
            LET r == DeletionStrategy(Current, draws)
            IN  /\ r.pop = Current
                /\ r.rounds = 0
                /\ r.selected = <<>>

C10_Witness ==
    /\ last.op = "deletion"
    /\ last.case = "not_required"
    /\ last.raised = "none"
    /\ num_micros = max_micros
    /\ members # <<>>

\* C11: every member has numerosity >= 1 (classifiers are handed to add and
\* insert with numerosity >= 1), and delete removes a member whose numerosity
\* is 1 instead of leaving it with numerosity 0.
C11_MembersHavePositiveNumerosity ==
    /\ \A m \in Members : numerosity[m] >= 1
    /\ \A c \in Members :
          LET q == delete(Current, c)
          IN  \A m \in Range(q.members) : q.numerosity[m] >= 1

C11_Witness ==
    /\ last.op = "delete"
    /\ last.case = "last_copy"
    /\ last.raised = "none"
    /\ \E m \in Members : numerosity[m] >= 2
    /\ \E c \in Absent : numerosity[c] = 1

\* C12: in a population filled only through insert (add never called), no
\* two members have equal rules, whatever sequence of insert, duplicate,
\* replace, delete and remove is run.
C12_InsertKeepsRulesDistinct ==
    \A i \in 1 .. Len(members) : \A j \in 1 .. Len(members) :
        i # j => rule[members[i]] # rule[members[j]]

C12_Witness ==
    /\ last.op = "insert"
    /\ last.case = "absorbed"
    /\ last.raised = "none"
    /\ Len(members) = 2
    /\ \E c \in Absent : \E m \in Members : rule[c] = rule[m]

\* C13: add, duplicate and remove called with a label raise that label's
\* ledger counter by exactly the absolute change of num_micros and leave every
\* other counter alone; called without a label they leave the ledger as it
\* was, and num_micros is updated either way.
C13_LedgerRecordsAbsoluteChange ==
    /\ \A c \in Absent, l \in LabelArgs :
          LET q == add(Current, c, l)
          IN  /\ q.raised = "none"
              /\ q.num_micros = num_micros + numerosity[c]
              /\ q.ledger = IF l = None THEN ledger
                            ELSE [ledger EXCEPT
                                    ![l] = @ + Abs(q.num_micros - num_micros)]
    /\ \A c \in Members, n \in CopyCounts, l \in LabelArgs :
          LET q == duplicate(Current, c, n, l)
          IN  /\ q.raised = "none"
              /\ q.num_micros = num_micros + n
              /\ q.ledger = IF l = None THEN ledger
                            ELSE [ledger EXCEPT
                                    ![l] = @ + Abs(q.num_micros - num_micros)]
    /\ \A c \in Members, l \in LabelArgs :
          LET q == remove(Current, c, l)
          IN  /\ q.raised = "none"
              /\ q.num_micros = num_micros - numerosity[c]
              /\ q.ledger = IF l = None THEN ledger
                            ELSE [ledger EXCEPT
                                    ![l] = @ + Abs(q.num_micros - num_micros)]

C13_Witness ==
    /\ last.op = "remove"
    /\ last.case = "member"
    /\ last.raised = "none"
    /\ ledger["discovery"] >= 2
    /\ ledger["absorption"] = 0
    /\ ledger["deletion"] = 0

\* C14: insert(c) with a label L raises the ledger counter "absorption" by
\* c.numerosity and leaves L alone when a member of equal rule absorbs c, and
\* raises L by c.numerosity and leaves "absorption" alone when the rule is
\* novel; no other counter changes in either case.
C14_InsertLedger ==
    \A c \in Classifiers, l \in CallerLabels :
        LET q == insert(Current, c, l)
        IN  /\ q.raised = "none"
            /\ q.ledger =
                 IF \E m \in Members : rule[m] = rule[c]
                 THEN [ledger EXCEPT !["absorption"] = @ + numerosity[c]]
                 ELSE [ledger EXCEPT ![l] = @ + numerosity[c]]

C14_Witness ==
    /\ last.op = "insert"
    /\ last.case = "absorbed"
    /\ last.raised = "none"
    /\ ledger["absorption"] >= 1
    /\ ledger["discovery"] >= 1

\* C15: constructing a Population fails with InvalidSizeError whenever
\* max_micros is not a positive integer (zero, negative or non-integral), and
\* for a positive integer succeeds with max_micros equal to the given value,
\* num_micros = 0 and no members; max_micros never changes afterwards.
C15_ConstructionValidates ==
    call.fn = "__init__" =>
        LET x == call.arg
            positive_integer == x[1] > 0 /\ x[1] % x[2] = 0
        IN  IF positive_integer
            THEN /\ call.result.raised = "none"
                 /\ call.result.max_micros * x[2] = x[1]
                 /\ last.op = "__init__" => num_micros = 0 /\ members = <<>>
            ELSE call.result.raised = "InvalidSizeError"

\* C16: a deletion-strategy call that finds num_micros above max_micros by
\* excess >= 1 runs exactly excess rounds and returns, each round one delete
\* that lowers num_micros by 1, so that the ledger counter "deletion" rises by
\* exactly excess and no other counter changes.
C16_ExactlyExcessRounds ==
    Excess >= 1 =>
        \A draws \in DrawSeqs :
            LET r == DeletionStrategy(Current, draws)
            IN  /\ r.pop.raised = "none"
                /\ r.rounds = Excess
                /\ r.pop.num_micros = num_micros - Excess
                /\ r.pop.ledger = [ledger EXCEPT !["deletion"] = @ + Excess]

\* C17: for every population with members and every choice_point =
\* rand() * total_vote in [0, total_vote), _select_for_deletion returns the
\* first member, in iteration order, at which the running sum of the votes is
\* strictly greater than choice_point.
C17_FirstPrefixSumAboveChoicePoint ==
    members # <<>> =>
        \A draw \in 0 .. DrawDen - 1 :
            LET votes == Votes(Current)
                total_vote == SumVotes(votes, Len(members))
                choice_point == RatMul(<<draw, DrawDen>>, total_vote)
                s == _select_for_deletion(Current, draw)
            IN  /\ s.raised = "none"
                /\ RatLess(choice_point, total_vote)
                /\ \E k \in 1 .. Len(members) :
                      /\ s.classifier = members[k]
                      /\ RatLess(choice_point, SumVotes(votes, k))
                      /\ \A j \in 1 .. k - 1 :
                            ~RatLess(choice_point, SumVotes(votes, j))

C17_Witness ==
    /\ last.op = "deletion"
    /\ last.case = "required"
    /\ last.raised = "none"
    /\ last.rounds >= 1
    /\ Len(members) >= 2

\* C18: within one call of the deletion strategy every round selects from the
\* population as the earlier rounds left it: the second selection is the one
\* _select_for_deletion makes on the population after the first delete (mean
\* fitness and votes recomputed, a decremented classifier voted on with its
\* decremented numerosity), and no classifier is selected more often than it
\* has copies, so one removed entirely is never selected again.
C18_RoundsSeeEarlierDeletions ==
    Excess >= 2 =>
        \A draws \in DrawSeqs :
            LET r == DeletionStrategy(Current, draws)
            IN  /\ r.rounds >= 2 =>
                      r.selected[2] =
                          _select_for_deletion(delete(Current, r.selected[1]),
                                               draws[2]).classifier
                /\ \A c \in Classifiers :
                      Cardinality({i \in 1 .. Len(r.selected) : r.selected[i] = c})
                          <= IF c \in Members THEN numerosity[c] ELSE 0

C18_Witness ==
    /\ last.op = "deletion"
    /\ last.case = "required"
    /\ last.raised = "none"
    /\ last.rounds = 2
    /\ \E c \in Absent : \E m \in Members : numerosity[m] >= 1 /\ c # m

\* C19: num_micros is never negative and the assertion num_micros >= 0 of
\* _dec_num_micros never fails, for the calls whose membership preconditions
\* hold and for any call of the deletion strategy.
C19_NumMicrosNeverNegative ==
    /\ num_micros >= 0
    /\ last.raised # "AssertionError"
    /\ \A c \in Members, l \in LabelArgs :
          LET q == remove(Current, c, l)
          IN  q.raised = "none" /\ q.num_micros >= 0
    /\ \A c \in Members :
          LET q == delete(Current, c)
          IN  q.raised = "none" /\ q.num_micros >= 0
    /\ \A a \in Members, b \in Members, l \in LabelArgs :
          LET q == replace(Current, a, b, l)
          IN  q.raised = "none" /\ q.num_micros >= 0
    /\ \A draws \in DrawSeqs :
          LET r == DeletionStrategy(Current, draws)
          IN  r.pop.raised # "AssertionError" /\ r.pop.num_micros >= 0

C19_Witness ==
    /\ last.op = "remove"
    /\ last.case = "member"
    /\ last.raised = "none"
    /\ num_micros = 0
    /\ members = <<>>

\* C20: when every vote is non-negative and total_vote > 0,
\* _select_for_deletion returns a member of the population whose own vote is
\* strictly positive (never None, never a member with vote 0), and the delete
\* that follows does not raise MemberNotFoundError.
C20_SelectedHasPositiveVote ==
    call.fn = "_select_for_deletion" =>
        LET ms == call.arg.members
            vs == call.arg.votes
            population == [EmptyPopulation EXCEPT !.members = ms,
                                                  !.num_micros = Len(ms)]
        IN  \* no vote is negative and their sum is positive
            (/\ \A i \in 1 .. Len(ms) : vs[i] >= 0
             /\ \E i \in 1 .. Len(ms) : vs[i] > 0)
            => /\ \E k \in 1 .. Len(ms) : call.result = ms[k] /\ vs[k] > 0
               /\ delete(population, call.result).raised = "none"

C20_Witness ==
    /\ call.fn = "_select_for_deletion"
    /\ call.arg.members = <<"A", "B", "C">>
    /\ call.arg.votes = <<0, 2, 0>>
    /\ call.arg.draw = 0
    /\ call.result = "B"

\* C21: replace(a, b) with a label L on members a and b raises the ledger
\* counter of L by exactly the numerosity a had before the call (the copies
\* given to b) although num_micros ends where it started; the removal of a is
\* recorded under no label and no other counter changes.
C21_ReplaceLedger ==
    \A a \in Members, b \in Members, l \in CallerLabels :
        LET q == replace(Current, a, b, l)
        IN  /\ q.raised = "none"
            /\ q.num_micros = num_micros
            /\ q.ledger = [ledger EXCEPT ![l] = @ + numerosity[a]]

C21_Witness ==
    /\ last.op = "replace"
    /\ last.case = "distinct"
    /\ last.raised = "none"
    /\ ledger["discovery"] = 2
    /\ ledger["absorption"] = 0
    /\ ledger["deletion"] = 0
    /\ \E c \in Absent : numerosity[c] = 2

====
